---- MODULE Spec2Model ----
(***************************************************************************)
(* Model of the OCR single-page application (App component).               *)
(*                                                                         *)
(* The store `processedImages` is an ordered list of records.  Every drop  *)
(* runs its own `onDrop` loop (a batch); the loop calls `processImage` for *)
(* one file, awaits its promise, waits for the fixed delay and goes on.    *)
(* `processImage` creates the record synchronously, then the FileReader    *)
(* and the extraction stream drive the record through callbacks.           *)
(*                                                                         *)
(* State:                                                                  *)
(*   processedImages  the store, a sequence of ProcessedImage records      *)
(*   selectedImage    the record object handed to setSelectedImage (the    *)
(*                    record as it was rendered at the click), or Null     *)
(*   batches          one entry per onDrop call: its files, where its loop *)
(*                    stands (pc: await, delay, done), the delays it has   *)
(*                    waited, and one task per processImage call made:     *)
(*                    the call's locals (imageId, imageUrl, fullText),     *)
(*                    where its callbacks stand (pc: reading, requesting,  *)
(*                    streaming, done), its promise, and for the           *)
(*                    properties its outcome and the chunks and requests   *)
(*                    it has counted                                       *)
(*   nextUrl          the next URL of URL.createObjectURL, never reused    *)
(*   objectUrls       the object URLs created and not revoked              *)
(*   download         the file the last click on a download button offered *)
(*   removalOccurred  whether removeImage has run (for the properties)     *)
(*                                                                         *)
(* Store updates are functional updaters, applied in the order they are    *)
(* issued: each is applied to the store in the step that issues it.  A     *)
(* settled promise resumes the awaiting loop in a microtask of the same    *)
(* step, so settling and entering the delay are one step.                  *)
(*                                                                         *)
(* Texts and file names are sequences of characters; a stream chunk is     *)
(* such a sequence.                                                        *)
(* `Math.random()` ids and the outcomes of the reader and of the service   *)
(* are choices of the environment.                                         *)
(***************************************************************************)
EXTENDS Integers, Sequences, FiniteSets, TLC

VARIABLES processedImages, selectedImage, batches, nextUrl, objectUrls, download,
          removalOccurred

vars == <<processedImages, selectedImage, batches, nextUrl, objectUrls, download,
         removalOccurred>>

----------------------------------------------------------------------------
(* Bounds of the model. *)

\* number of drop events in a session
MaxBatches == 2
\* number of accepted files in one drop
MaxFiles == 2
\* number of chunks one extraction stream yields
MaxChunks == 2
\* number of files dropped in a session, over all its drops
MaxDropped == 2
\* number of characters of a file name before its extension
MaxNameLen == 3
\* number of clicks on a download button
MaxDownloads == 1

\* values `Math.random().toString(36).substring(7)` may return
IdTokens == {"k3f9a", "q7x2m"}
\* names of the dropped files
FileNames == {<<"r", ".", "p", "n", "g">>}
\* texts a chunk of the stream may carry
ChunkTexts == {<<"x">>, <<"y">>}

----------------------------------------------------------------------------
(* Values. *)

\* `error?: string` left undefined
NoError == "undefined"
FailedToProcess == "Failed to process image"
FileReadingError == "File reading error"
\* `useState<ProcessedImage | null>(null)`
Null == [id |-> "null"]
\* no file has been offered for download
NoDownload == [filename |-> <<>>]

RECURSIVE SeqsUpTo(_, _)
SeqsUpTo(S, n) ==
    IF n = 0 THEN {<<>>}
    ELSE LET shorter == SeqsUpTo(S, n - 1)
         IN  shorter \cup {Append(s, x) : s \in {t \in shorter : Len(t) = n - 1}, x \in S}

\* the `acceptedFiles` arrays a drop may deliver
AcceptedBatches == SeqsUpTo(FileNames, MaxFiles)

----------------------------------------------------------------------------
(* Store updaters: the functions handed to setProcessedImages. *)

NewRecord(imageId, name, imageUrl) ==
    [id |-> imageId, name |-> name, text |-> <<>>, isProcessing |-> TRUE,
     error |-> NoError, imageUrl |-> imageUrl]

\* a store that puts the newest record first
AppendRecordFirst(prev, imageId, name, imageUrl) ==
    <<NewRecord(imageId, name, imageUrl)>> \o prev

AppendRecord(prev, imageId, name, imageUrl) ==
    Append(prev, NewRecord(imageId, name, imageUrl))

SetText(prev, imageId, fullText) ==
    [k \in DOMAIN prev |->
        IF prev[k].id = imageId THEN [prev[k] EXCEPT !.text = fullText] ELSE prev[k]]

MarkDone(prev, imageId) ==
    [k \in DOMAIN prev |->
        IF prev[k].id = imageId THEN [prev[k] EXCEPT !.isProcessing = FALSE] ELSE prev[k]]

MarkFailed(prev, imageId) ==
    [k \in DOMAIN prev |->
        IF prev[k].id = imageId
        THEN [prev[k] EXCEPT !.isProcessing = FALSE, !.error = FailedToProcess]
        ELSE prev[k]]

\* an onerror handler that records the error and leaves the flag alone
MarkReadErrorStillProcessing(prev, imageId) ==
    [k \in DOMAIN prev |->
        IF prev[k].id = imageId THEN [prev[k] EXCEPT !.error = FileReadingError] ELSE prev[k]]

MarkReadError(prev, imageId) ==
    [k \in DOMAIN prev |->
        IF prev[k].id = imageId
        THEN [prev[k] EXCEPT !.isProcessing = FALSE, !.error = FileReadingError]
        ELSE prev[k]]

\* number of files handed to onDrop so far
RECURSIVE Dropped(_)
Dropped(bs) ==
    IF bs = <<>> THEN 0 ELSE Len(bs[Len(bs)].files) + Dropped(SubSeq(bs, 1, Len(bs) - 1))

RemoveById(prev, id) == SelectSeq(prev, LAMBDA img : img.id # id)

----------------------------------------------------------------------------
(* processImage: the synchronous part, run by the loop for one file. *)

\* the closure of one processImage call: its locals, where its callbacks
\* stand, the state of the promise it returned
NewTask(imageId, imageUrl) ==
    [imageId  |-> imageId,
     imageUrl |-> imageUrl,
     fullText |-> <<>>,
     chunks   |-> 0,
     requests |-> 0,
     pc       |-> "reading",
     outcome  |-> "none",
     promise  |-> "pending"]

\* a processImage that starts the read without creating the record
ProcessImageStoreNoRecord(prev, imageId, name, imageUrl) == prev

\* the store after the synchronous part of processImage(file).  The calls of
\* its try block (getGenerativeModel with a model name, new FileReader,
\* readAsDataURL of a dropped File) do not throw, so the outer catch, which
\* only guards them, is never entered: every failure comes by a callback.
ProcessImageStore(prev, imageId, name, imageUrl) ==
    AppendRecord(prev, imageId, name, imageUrl)

----------------------------------------------------------------------------
(* onDrop: the sequential loop of one batch. *)

\* a loop that calls processImage without awaiting it
AfterAwaitNotAwaited(promise) == "delay"

\* a loop without the try/catch: a rejection ends it
AfterAwaitUncaught(promise) ==
    IF promise = "pending" THEN "await"
    ELSE IF promise = "rejected" THEN "done" ELSE "delay"

\* where the loop stands once the awaited promise has settled: a rejection
\* is caught and logged, and the loop waits for the delay either way
AfterAwait(promise) ==
    IF promise = "pending" THEN "await" ELSE "delay"

\* the loop calls processImage for file number Len(batch.tasks) + 1
CallProcessImage(batch, imageId, imageUrl) ==
    LET task == NewTask(imageId, imageUrl)
    IN  [batch EXCEPT !.tasks = Append(@, task),
                      !.pc = AfterAwait(task.promise)]

Init ==
    /\ processedImages = <<>>
    /\ selectedImage = Null
    /\ batches = <<>>
    /\ nextUrl = 1
    /\ objectUrls = {}
    /\ download = NoDownload
    /\ removalOccurred = FALSE

OnDrop(acceptedFiles, imageId) ==
    /\ Len(batches) < MaxBatches
    /\ Dropped(batches) + Len(acceptedFiles) <= MaxDropped
    /\ IF acceptedFiles = <<>>
       THEN /\ batches' = Append(batches,
                    [files |-> acceptedFiles, tasks |-> <<>>, pc |-> "done", delays |-> 0])
            /\ UNCHANGED <<processedImages, nextUrl, objectUrls>>
       ELSE /\ batches' = Append(batches,
                    CallProcessImage(
                        [files |-> acceptedFiles, tasks |-> <<>>, pc |-> "await", delays |-> 0],
                        imageId, nextUrl))
            /\ processedImages' = ProcessImageStore(processedImages, imageId,
                                      acceptedFiles[1], nextUrl)
            /\ nextUrl' = nextUrl + 1
            /\ objectUrls' = objectUrls \cup {nextUrl}
    /\ UNCHANGED <<selectedImage, download, removalOccurred>>

\* the delay's timer fires: the loop goes on to the next file, or ends
DelayElapsed(b, imageId) ==
    /\ b \in DOMAIN batches
    /\ batches[b].pc = "delay"
    /\ LET batch   == [batches[b] EXCEPT !.delays = @ + 1]
           started == Len(batch.tasks)
       IN  IF started < Len(batch.files)
           THEN /\ batches' = [batches EXCEPT
                        ![b] = CallProcessImage(batch, imageId, nextUrl)]
                /\ processedImages' = ProcessImageStore(processedImages, imageId,
                                          batch.files[started + 1], nextUrl)
                /\ nextUrl' = nextUrl + 1
                /\ objectUrls' = objectUrls \cup {nextUrl}
           ELSE /\ batches' = [batches EXCEPT ![b] = [batch EXCEPT !.pc = "done"]]
                /\ UNCHANGED <<processedImages, nextUrl, objectUrls>>
    /\ UNCHANGED <<selectedImage, download, removalOccurred>>

----------------------------------------------------------------------------
(* processImage: the callbacks of one call, file i of batch b. *)

TaskAt(b, i) == batches[b].tasks[i]

HasTask(b, i) ==
    /\ b \in DOMAIN batches
    /\ i \in DOMAIN batches[b].tasks

\* the closure's new state; a settled promise resumes the loop awaiting it
SetTask(b, i, task) ==
    batches' = [batches EXCEPT ![b] =
                    [@ EXCEPT !.tasks[i] = task, !.pc = AfterAwait(task.promise)]]

\* reader.onload: the request to the extraction service is issued
ReaderOnLoad(b, i) ==
    /\ HasTask(b, i)
    /\ TaskAt(b, i).pc = "reading"
    /\ SetTask(b, i, [TaskAt(b, i) EXCEPT !.pc = "requesting", !.requests = @ + 1])
    /\ UNCHANGED <<processedImages, selectedImage, nextUrl, objectUrls, download, removalOccurred>>

\* reader.onerror
ReaderOnError(b, i) ==
    /\ HasTask(b, i)
    /\ TaskAt(b, i).pc = "reading"
    /\ processedImages' = MarkReadError(processedImages, TaskAt(b, i).imageId)
    /\ SetTask(b, i, [TaskAt(b, i) EXCEPT
            !.pc = "done", !.outcome = "readFailed", !.promise = "rejected"])
    /\ UNCHANGED <<selectedImage, nextUrl, objectUrls, download, removalOccurred>>

\* generateContentStream resolves: `let fullText = ''`, the stream is open
StreamOpens(b, i) ==
    /\ HasTask(b, i)
    /\ TaskAt(b, i).pc = "requesting"
    /\ SetTask(b, i, [TaskAt(b, i) EXCEPT !.pc = "streaming", !.fullText = <<>>])
    /\ UNCHANGED <<processedImages, selectedImage, nextUrl, objectUrls, download, removalOccurred>>

\* one iteration of `for await (const chunk of result.stream)`
StreamChunk(b, i, chunkText) ==
    /\ HasTask(b, i)
    /\ TaskAt(b, i).pc = "streaming"
    /\ TaskAt(b, i).chunks < MaxChunks
    /\ LET fullText == TaskAt(b, i).fullText \o chunkText
       IN  /\ processedImages' = SetText(processedImages, TaskAt(b, i).imageId, fullText)
           /\ SetTask(b, i, [TaskAt(b, i) EXCEPT !.fullText = fullText, !.chunks = @ + 1])
    /\ UNCHANGED <<selectedImage, nextUrl, objectUrls, download, removalOccurred>>

\* the stream ends: the code after the loop
StreamEnds(b, i) ==
    /\ HasTask(b, i)
    /\ TaskAt(b, i).pc = "streaming"
    /\ processedImages' = MarkDone(processedImages, TaskAt(b, i).imageId)
    /\ SetTask(b, i, [TaskAt(b, i) EXCEPT
            !.pc = "done", !.outcome = "success", !.promise = "resolved"])
    /\ UNCHANGED <<selectedImage, nextUrl, objectUrls, download, removalOccurred>>

\* the request or the stream throws: the inner catch
ServiceFails(b, i) ==
    /\ HasTask(b, i)
    /\ TaskAt(b, i).pc \in {"requesting", "streaming"}
    /\ processedImages' = MarkFailed(processedImages, TaskAt(b, i).imageId)
    /\ SetTask(b, i, [TaskAt(b, i) EXCEPT
            !.pc = "done", !.outcome = "serviceFailed", !.promise = "resolved"])
    /\ UNCHANGED <<selectedImage, nextUrl, objectUrls, download, removalOccurred>>

----------------------------------------------------------------------------
(* The user's actions on the rendered view. *)

\* a click on card k: `setSelectedImage(img)` keeps the record as rendered
SelectImage(k) ==
    /\ k \in DOMAIN processedImages
    /\ selectedImage' = processedImages[k]
    /\ UNCHANGED <<processedImages, batches, nextUrl, objectUrls, download, removalOccurred>>

\* the detail pane's close button, rendered while a record is selected
CloseDetail ==
    /\ selectedImage # Null
    /\ selectedImage' = Null
    /\ UNCHANGED <<processedImages, batches, nextUrl, objectUrls, download, removalOccurred>>

\* the remove button of card k is rendered once the record is not processing
RemoveOffered(img) == ~img.isProcessing

\* a removeImage that leaves the selection alone
SelectionAfterRemoveKept(selected, id) == selected

\* `if (selectedImage?.id === id) setSelectedImage(null)`
SelectionAfterRemove(selected, id) ==
    IF selected # Null /\ selected.id = id THEN Null ELSE selected

RemoveImage(k) ==
    /\ k \in DOMAIN processedImages
    /\ RemoveOffered(processedImages[k])
    /\ LET id == processedImages[k].id
       IN  /\ processedImages' = RemoveById(processedImages, id)
           /\ selectedImage' = SelectionAfterRemove(selectedImage, id)
    /\ removalOccurred' = TRUE
    /\ UNCHANGED <<batches, nextUrl, objectUrls, download>>

----------------------------------------------------------------------------

BatchIds == 1..MaxBatches
FileIds == 1..MaxFiles
CardIds == 1..(MaxBatches * MaxFiles)

TaskStep(b, i) ==
    \/ ReaderOnLoad(b, i)
    \/ ReaderOnError(b, i)
    \/ StreamOpens(b, i)
    \/ \E chunkText \in ChunkTexts : StreamChunk(b, i, chunkText)
    \/ StreamEnds(b, i)
    \/ ServiceFails(b, i)

LoopStep(b) ==
    \E imageId \in IdTokens : DelayElapsed(b, imageId)

Next ==
    \/ \E acceptedFiles \in AcceptedBatches, imageId \in IdTokens :
            OnDrop(acceptedFiles, imageId)
    \/ \E b \in BatchIds : LoopStep(b)
    \/ \E b \in BatchIds, i \in FileIds : TaskStep(b, i)
    \/ \E k \in CardIds : SelectImage(k)
    \/ CloseDetail
    \/ \E k \in CardIds : RemoveImage(k)

Spec == Init /\ [][Next]_vars

\* the reader, the service and the timer eventually answer
Fairness ==
    /\ \A b \in BatchIds : WF_vars(LoopStep(b))
    /\ \A b \in BatchIds, i \in FileIds : WF_vars(TaskStep(b, i))

FairSpec == Spec /\ Fairness

----------------------------------------------------------------------------
(* The buttons of a card: Show More and download.  They read one record,   *)
(* so they are explored on every store of one record, over file names with *)
(* several dots and texts around the Show More threshold.                  *)

\* `img.text.length > 100`
ShowMoreThreshold == 100

\* a card that shows the button from 100 characters on
ShowMoreOfferedFromThreshold(img) ==
    img.error = NoError /\ Len(img.text) >= ShowMoreThreshold

\* the card renders the error in place of the text when `img.error` is set,
\* and the button under the text when the text is longer than the threshold
ShowMoreOffered(img) ==
    img.error = NoError /\ Len(img.text) > ShowMoreThreshold

ShowMore(k) ==
    /\ k \in DOMAIN processedImages
    /\ ShowMoreOffered(processedImages[k])
    /\ selectedImage' = processedImages[k]
    /\ UNCHANGED <<processedImages, batches, nextUrl, objectUrls, download, removalOccurred>>

\* `s.split(sep)`: the pieces of s between the separators
RECURSIVE Split(_, _)
Split(s, sep) ==
    IF \A i \in DOMAIN s : s[i] # sep
    THEN <<s>>
    ELSE LET i == CHOOSE j \in DOMAIN s : s[j] = sep /\ \A h \in 1..(j - 1) : s[h] # sep
         IN  <<SubSeq(s, 1, i - 1)>> \o Split(SubSeq(s, i + 1, Len(s)), sep)

ExtractedSuffix == <<"-", "e", "x", "t", "r", "a", "c", "t", "e", "d", ".", "t", "x", "t">>

\* `${filename.split('.')[0]}-extracted.txt`
DownloadFilename(filename) == Split(filename, ".")[1] \o ExtractedSuffix

\* the object URLs that downloadText created for its blobs
BlobUrls ==
    {url \in objectUrls :
        \A b \in DOMAIN batches : \A i \in DOMAIN batches[b].tasks :
            batches[b].tasks[i].imageUrl # url}

\* the download button of card k, rendered once the record is not processing
DownloadText(k) ==
    /\ k \in DOMAIN processedImages
    /\ ~processedImages[k].isProcessing
    /\ Cardinality(BlobUrls) < MaxDownloads
    /\ download' = [filename |-> DownloadFilename(processedImages[k].name),
                    name     |-> processedImages[k].name,
                    text     |-> processedImages[k].text,
                    href     |-> nextUrl]
    /\ objectUrls' = objectUrls \cup {nextUrl}
    /\ nextUrl' = nextUrl + 1
    /\ UNCHANGED <<processedImages, selectedImage, batches, removalOccurred>>

\* the characters of a file name, and the extension the drop zone accepts
NameChars == {"a", "."}
PngExtension == <<".", "p", "n", "g">>
ViewNames == FileNames \cup {body \o PngExtension : body \in SeqsUpTo(NameChars, MaxNameLen)}

TextOfLen(n) == [i \in 1..n |-> "x"]
ViewTexts ==
    {TextOfLen(n) : n \in {0, ShowMoreThreshold - 1, ShowMoreThreshold, ShowMoreThreshold + 1}}

\* how far the one file of the store has come
ViewOutcomes == {"none", "success", "serviceFailed", "readFailed"}

\* the state after one drop of one file that has streamed `text` and has
\* come to `outcome` ("none": its stream is still open)
ViewInit ==
    \E name \in ViewNames, text \in ViewTexts, outcome \in ViewOutcomes,
       imageId \in IdTokens :
        /\ outcome = "readFailed" => text = <<>>
        /\ processedImages =
               <<[NewRecord(imageId, name, 1) EXCEPT
                      !.text = text,
                      !.isProcessing = (outcome = "none"),
                      !.error = IF outcome = "serviceFailed" THEN FailedToProcess
                                ELSE IF outcome = "readFailed" THEN FileReadingError
                                ELSE NoError]>>
        /\ batches =
               <<[files  |-> <<name>>,
                  pc     |-> IF outcome = "none" THEN "await" ELSE "delay",
                  delays |-> 0,
                  tasks  |-> <<[NewTask(imageId, 1) EXCEPT
                                    !.fullText = text,
                                    !.chunks = IF text = <<>> THEN 0 ELSE 1,
                                    !.requests = IF outcome = "readFailed" THEN 0 ELSE 1,
                                    !.pc = IF outcome = "none" THEN "streaming" ELSE "done",
                                    !.outcome = outcome,
                                    !.promise = IF outcome = "none" THEN "pending"
                                                ELSE IF outcome = "readFailed" THEN "rejected"
                                                ELSE "resolved"]>>]>>
        /\ selectedImage = Null
        /\ nextUrl = 2
        /\ objectUrls = {1}
        /\ download = NoDownload
        /\ removalOccurred = FALSE

ViewNext ==
    \/ \E k \in CardIds : ShowMore(k)
    \/ \E k \in CardIds : DownloadText(k)
    \/ CloseDetail

ViewSpec == ViewInit /\ [][ViewNext]_vars

----------------------------------------------------------------------------
(* Vocabulary of the properties. *)

AllTasks == {t \in BatchIds \X FileIds : HasTask(t[1], t[2])}

\* the request of the task has been issued and has neither completed nor failed
InFlight(task) == task.pc \in {"requesting", "streaming"}

\* createObjectURL never returns the same URL twice: it names a record for good
InStore(url) == \E k \in DOMAIN processedImages : processedImages[k].imageUrl = url

RecordOf(url) ==
    processedImages[CHOOSE k \in DOMAIN processedImages : processedImages[k].imageUrl = url]

Started(b) == IF b \in DOMAIN batches THEN Len(batches[b].tasks) ELSE 0

\* the records of the store that processImage created for the files of batch b
RecordsOfBatch(b) ==
    SelectSeq(processedImages,
              LAMBDA img : \E i \in DOMAIN batches[b].tasks :
                               batches[b].tasks[i].imageUrl = img.imageUrl)

----------------------------------------------------------------------------
(* C1: within one batch, file i+1 is started only once the promise of      *)
(* file i has settled (resolved or rejected) and the delay that follows    *)
(* has elapsed; a rejection does not skip the delay.                       *)

C1_EarlierFilesSettledAndDelayed ==
    \A b \in DOMAIN batches :
        \A i \in 1..(Len(batches[b].tasks) - 1) :
            /\ batches[b].tasks[i].promise # "pending"
            /\ batches[b].delays >= i

C1_StartOnlyFromElapsedDelay ==
    \A b \in DOMAIN batches :
        (Started(b) >= 1 /\ Len(batches'[b].tasks) > Started(b)) =>
            /\ batches[b].pc = "delay"
            /\ batches[b].tasks[Started(b)].promise # "pending"
            /\ batches'[b].delays = batches[b].delays + 1

C1_SequentialWithDelay ==
    /\ []C1_EarlierFilesSettledAndDelayed
    /\ [][C1_StartOnlyFromElapsedDelay]_vars

\* a second file was started after the first one's promise was rejected
C1_Witness ==
    \E b \in DOMAIN batches :
        /\ Len(batches[b].tasks) = 2
        /\ batches[b].tasks[1].promise = "rejected"
        /\ batches[b].delays = 1

----------------------------------------------------------------------------
(* C2: over any sequence of drops, at most one file's extraction request   *)
(* is in flight.                                                           *)

C2_AtMostOneInFlight ==
    Cardinality({t \in AllTasks : InFlight(TaskAt(t[1], t[2]))}) <= 1

----------------------------------------------------------------------------
(* C3: when a batch of N files is dropped, N records of the batch are in   *)
(* the store, processing and with empty text, before the first read or     *)
(* request of the batch is started (the claim as written).                 *)

C3_OwnRecordWhenReadStarts ==
    \A b \in DOMAIN batches' :
        LET n == Len(batches'[b].tasks)
        IN  (n > Started(b) /\ batches'[b].tasks[n].pc = "reading") =>
                /\ processedImages' # <<>>
                /\ LET img == processedImages'[Len(processedImages')]
                   IN  /\ img.imageUrl = batches'[b].tasks[n].imageUrl
                       /\ img.id = batches'[b].tasks[n].imageId
                       /\ img.name = batches'[b].files[n]
                       /\ img.isProcessing
                       /\ img.text = <<>>
                /\ Len(RecordsOfBatch(b))' <= n

----------------------------------------------------------------------------
(* C4: once the isProcessing flag of a record is false, it is never true   *)
(* again and the text of the record no longer changes.                     *)

C4_TerminalStep ==
    \A k \in DOMAIN processedImages, m \in DOMAIN processedImages' :
        (/\ processedImages[k].imageUrl = processedImages'[m].imageUrl
         /\ ~processedImages[k].isProcessing) =>
            /\ ~processedImages'[m].isProcessing
            /\ processedImages'[m].text = processedImages[k].text

C4_TerminalRecordIsFrozen == [][C4_TerminalStep]_vars

----------------------------------------------------------------------------
(* C5: every record of the store whose error is set is not processing.     *)

C5_ErrorImpliesNotProcessing ==
    \A k \in DOMAIN processedImages :
        processedImages[k].error # NoError => ~processedImages[k].isProcessing

\* a record failed on the read of its file while another one is processing
C5_Witness ==
    \E k, m \in DOMAIN processedImages :
        /\ processedImages[k].error = FileReadingError
        /\ processedImages[m].isProcessing

----------------------------------------------------------------------------
(* C6: no two records of the store have the same id.                       *)

C6_UniqueIds ==
    \A k, m \in DOMAIN processedImages :
        k # m => processedImages[k].id # processedImages[m].id

----------------------------------------------------------------------------
(* C7: once a batch of N files is fully processed and nothing was removed, *)
(* the store holds exactly N records of the batch, one per file, in the    *)
(* order of the files in the batch.                                        *)

C7_BatchRecordsInOrder ==
    \A b \in DOMAIN batches :
        (batches[b].pc = "done" /\ ~removalOccurred) =>
            /\ Len(batches[b].tasks) = Len(batches[b].files)
            /\ Len(RecordsOfBatch(b)) = Len(batches[b].files)
            /\ \A i \in DOMAIN batches[b].files :
                   /\ RecordsOfBatch(b)[i].imageUrl = batches[b].tasks[i].imageUrl
                   /\ RecordsOfBatch(b)[i].name = batches[b].files[i]

\* a batch of two files is fully processed, nothing was removed
C7_Witness ==
    \E b \in DOMAIN batches :
        /\ batches[b].pc = "done"
        /\ Len(batches[b].files) = 2
        /\ ~removalOccurred
        /\ Len(processedImages) = 2

----------------------------------------------------------------------------
(* C8: no failure aborts the batch: whatever the outcomes of the files     *)
(* before it, every file of every batch is eventually started, provided    *)
(* the reader, the service and the timer eventually answer (FairSpec).     *)

C8_EveryFileIsStarted ==
    \A b \in BatchIds, i \in FileIds :
        (b \in DOMAIN batches /\ i \in DOMAIN batches[b].files) ~> HasTask(b, i)

\* the second file was started although the read of the first one failed
C8_Witness ==
    \E b \in DOMAIN batches :
        /\ Len(batches[b].tasks) = 2
        /\ batches[b].tasks[1].outcome = "readFailed"

----------------------------------------------------------------------------
(* C9: every record that is created eventually is a record of the store    *)
(* with isProcessing = false, provided the reader and the service          *)
(* eventually answer (FairSpec).                                           *)

C9_EveryRecordTerminates ==
    \A url \in 1..MaxDropped :
        InStore(url) ~> (InStore(url) /\ ~RecordOf(url).isProcessing)

----------------------------------------------------------------------------
(* C10: when the service fails after k chunks of a file, the record of the *)
(* file ends not processing, with the error 'Failed to process image' and  *)
(* with the k chunks as its text; the request is issued once, not retried. *)
(* The record is looked at for as long as the user keeps it in the store.  *)

C10_ServiceFailureKeepsPartialText ==
    \A t \in AllTasks :
        LET task == TaskAt(t[1], t[2])
        IN  task.outcome = "serviceFailed" =>
                /\ task.requests = 1
                /\ InStore(task.imageUrl) =>
                       /\ ~RecordOf(task.imageUrl).isProcessing
                       /\ RecordOf(task.imageUrl).error = FailedToProcess
                       /\ RecordOf(task.imageUrl).text = task.fullText

----------------------------------------------------------------------------
(* C11: removeImage removes exactly the one record the user chose, clears  *)
(* the selection if and only if that record was the selected one, and      *)
(* leaves every other record, and their order, unchanged.                  *)

Without(seq, k) == SubSeq(seq, 1, k - 1) \o SubSeq(seq, k + 1, Len(seq))

\* only removeImage makes the store shorter
C11_RemoveStep ==
    Len(processedImages') < Len(processedImages) =>
        \E k \in DOMAIN processedImages :
            /\ RemoveOffered(processedImages[k])
            /\ processedImages' = Without(processedImages, k)
            /\ selectedImage' =
                   IF /\ selectedImage # Null
                      /\ selectedImage.imageUrl = processedImages[k].imageUrl
                   THEN Null
                   ELSE selectedImage

C11_RemovesExactlyOne == [][C11_RemoveStep]_vars

----------------------------------------------------------------------------
(* C12: removing a record frees its preview URL: every live preview URL    *)
(* belongs to a record of the store.                                       *)

\* the object URLs that processImage created as previews
PreviewUrls ==
    {url \in objectUrls :
        \E t \in AllTasks : TaskAt(t[1], t[2]).imageUrl = url}

C12_LivePreviewUrlsAreInStore ==
    \A url \in PreviewUrls : InStore(url)

----------------------------------------------------------------------------
(* C13: while a record is selected, the text the detail pane renders is    *)
(* the current text of that record in the store.                           *)

\* the detail pane renders `selectedImage.text`
DetailText == selectedImage.text

C13_DetailShowsCurrentText ==
    (selectedImage # Null /\ InStore(selectedImage.imageUrl)) =>
        DetailText = RecordOf(selectedImage.imageUrl).text

----------------------------------------------------------------------------
(* C16: while a record is processing its text is the concatenation of the  *)
(* chunks its stream has yielded so far, and each value of the text is a   *)
(* prefix of the next one.                                                 *)

IsPrefix(s, t) == Len(s) <= Len(t) /\ SubSeq(t, 1, Len(s)) = s

C16_TextIsChunksSoFar ==
    \A t \in AllTasks :
        LET task == TaskAt(t[1], t[2])
        IN  (/\ task.pc = "streaming"
             /\ InStore(task.imageUrl)
             /\ RecordOf(task.imageUrl).isProcessing) =>
                RecordOf(task.imageUrl).text = task.fullText

C16_TextGrowsStep ==
    \A k \in DOMAIN processedImages, m \in DOMAIN processedImages' :
        (/\ processedImages[k].imageUrl = processedImages'[m].imageUrl
         /\ processedImages[k].isProcessing) =>
            IsPrefix(processedImages[k].text, processedImages'[m].text)

C16_TextGrowsByChunks ==
    /\ []C16_TextIsChunksSoFar
    /\ [][C16_TextGrowsStep]_vars

----------------------------------------------------------------------------
(* C17: a store update of the processor for a file changes only the record *)
(* created for that file (a chunk only its text, a terminal update only    *)
(* its isProcessing and error); the other records, their number and their  *)
(* order are unchanged.                                                    *)

\* a callback of the call t has run: its closure has changed
C17_UpdateStep ==
    \A t \in AllTasks :
        LET task == TaskAt(t[1], t[2])
        IN  TaskAt(t[1], t[2])' # task =>
                /\ Len(processedImages') = Len(processedImages)
                /\ \A k \in DOMAIN processedImages :
                       LET old == processedImages[k]
                           new == processedImages'[k]
                       IN  IF old.imageUrl # task.imageUrl
                           THEN new = old
                           ELSE IF TaskAt(t[1], t[2])'.pc = "done"
                           THEN new = [old EXCEPT !.isProcessing = new.isProcessing,
                                                  !.error = new.error]
                           ELSE new = [old EXCEPT !.text = new.text]

C17_UpdateTouchesOwnRecordOnly == [][C17_UpdateStep]_vars

----------------------------------------------------------------------------
(* C18: remove is offered only for a record that is not processing, so no  *)
(* record leaves the store while it is processing and every update of a    *)
(* stream finds its record in the store.                                   *)

C18_RemovedStep ==
    \A k \in DOMAIN processedImages :
        (\A m \in DOMAIN processedImages' :
              processedImages'[m].imageUrl # processedImages[k].imageUrl) =>
            ~processedImages[k].isProcessing

C18_NoProcessingRecordRemoved == [][C18_RemovedStep]_vars

----------------------------------------------------------------------------
(* C19: whenever a selection is set, a record with the selected id is in   *)
(* the store.                                                              *)

C19_SelectionIsInStore ==
    selectedImage # Null =>
        \E k \in DOMAIN processedImages : processedImages[k].id = selectedImage.id

\* a selection that outlived the removal of another record
C19_Witness ==
    /\ selectedImage # Null
    /\ removalOccurred
    /\ Len(processedImages) = 1
    /\ processedImages[1].id = selectedImage.id

----------------------------------------------------------------------------
(* C14: a card offers Show More whenever the text of its record is longer  *)
(* than 100 characters, a failed record included, and not otherwise;       *)
(* activating it selects that record (the claim as written).               *)

C14_OfferedByLengthAlone ==
    \A k \in DOMAIN processedImages :
        (ENABLED ShowMore(k)) <=> (Len(processedImages[k].text) > 100)

(* C14, amended: a card offers Show More exactly when its record has no    *)
(* error and a text longer than 100 characters; a record with an error     *)
(* shows the error in place of the text and offers no Show More.           *)
(* Activating Show More makes that record the selected one.                *)

C14_OfferedState ==
    \A k \in DOMAIN processedImages :
        (ENABLED ShowMore(k)) <=>
            (processedImages[k].error = NoError /\ Len(processedImages[k].text) > 100)

\* under ViewSpec a record gets selected by Show More only
C14_ActivateStep ==
    (selectedImage' # selectedImage /\ selectedImage' # Null) =>
        \E k \in DOMAIN processedImages :
            /\ processedImages[k].error = NoError
            /\ Len(processedImages[k].text) > 100
            /\ selectedImage' = processedImages[k]

C14_ShowMoreOfferedWithoutError ==
    /\ []C14_OfferedState
    /\ [][C14_ActivateStep]_vars

\* Show More of a record of 101 characters was activated
C14_Witness ==
    /\ selectedImage # Null
    /\ selectedImage = processedImages[1]
    /\ Len(selectedImage.text) = 101

----------------------------------------------------------------------------
(* C15: the name of the downloaded file is the stem of the record's name,  *)
(* the name without its final extension, followed by '-extracted.txt'.     *)

\* the name without its last dot and what follows it
Stem(name) ==
    IF \A i \in DOMAIN name : name[i] # "."
    THEN name
    ELSE LET last == CHOOSE j \in DOMAIN name :
                         name[j] = "." /\ \A h \in (j + 1)..Len(name) : name[h] # "."
         IN  SubSeq(name, 1, last - 1)

C15_DownloadNameIsStem ==
    download # NoDownload =>
        download.filename = Stem(download.name) \o ExtractedSuffix

====
